---- MODULE Spec2Model ----
(***************************************************************************)
(* A model of simon's packrat PEG matcher (simon/grammar.py) and of its    *)
(* on-demand tokenizer (simon/lexer.py).                                   *)
(*                                                                         *)
(* The matcher is recursive Python; here every call of match() is a frame  *)
(* of an explicit call stack, Node objects live in a heap and are named by *)
(* their index (object identity), and the cache is the dict that the       *)
(* match() methods thread through every call.                              *)
(***************************************************************************)
EXTENDS Integers, Sequences, FiniteSets, TLC

(* ------------------------------ bounds ------------------------------- *)

\* longest input text
MaxLen == 3

\* deepest chain of nested match() calls before the interpreter gives up
RecursionLimit == 24

\* most entries of a TokenGenerator's rules mapping
MaxRules == 3

\* the tokens a Lexer may buffer
MaxTokens == 2

\* longest text, and most entries of the rules mapping, of a Lexer
MaxLexerLen == 2

MaxLexerRules == 1

\* longest text of two matches that run interleaved
MaxTwoLen == 1

(* ------------------------------ strings ------------------------------ *)

\* A str is a sequence of one-character strings.
Alphabet == {"x", "y"}

Texts == UNION {[1..n -> Alphabet] : n \in 0..MaxLen}

\* text[a:b] for 0 <= a <= b <= len(text)
Slice(s, a, b) == [k \in 1..(b - a) |-> s[a + k]]

\* whether lit occurs in s at offset pos
StartsWith(s, pos, lit) ==
    /\ pos + Len(lit) <= Len(s)
    /\ \A k \in 1..Len(lit) : s[pos + k] = lit[k]

\* length of the longest run of characters of cls in s from offset pos
RECURSIVE RunLen(_, _, _)
RunLen(s, pos, cls) ==
    IF pos < Len(s) /\ s[pos + 1] \in cls THEN 1 + RunLen(s, pos + 1, cls) ELSE 0

(* ----------------------- regular expressions ------------------------- *)

\* The patterns handed to re.compile: an escaped literal, or a greedy
\* repetition of a character class with a least count ([x]+ is Run({"x"}, 1),
\* [x]* is Run({"x"}, 0)).
Escaped(lit) == [kind |-> "lit", lit |-> lit]
Run(cls, least) == [kind |-> "run", cls |-> cls, least |-> least]

NoMatch == -1

\* pattern.match(text, position): the end offset of the match anchored at
\* position, or NoMatch.  A match object is truthy even when it is empty.
PatternMatch(pattern, s, pos) ==
    IF pattern.kind = "lit"
    THEN IF StartsWith(s, pos, pattern.lit) THEN pos + Len(pattern.lit) ELSE NoMatch
    ELSE IF RunLen(s, pos, pattern.cls) >= pattern.least
         THEN pos + RunLen(s, pos, pattern.cls)
         ELSE NoMatch

(* ---------------------------- the grammar ---------------------------- *)

Literal(lit) == [kind |-> "Literal", literal |-> lit]
RegEx(pat) == [kind |-> "RegEx", pattern |-> pat]
Terminal(name, term) == [kind |-> "Terminal", name |-> name, term |-> term]
Name(name) == [kind |-> "Name", name |-> name]
Alts(alts) == [kind |-> "Alts", alts |-> alts]
Sequence(exprs) == [kind |-> "Sequence", expressions |-> exprs]
Optional(e) == [kind |-> "Optional", optional |-> e]
Some(e) == [kind |-> "Some", expression |-> e]
Many(e) == [kind |-> "Many", expression |-> e]
PositiveLookahead(e) == [kind |-> "PositiveLookahead", expression |-> e]
NegativeLookahead(e) == [kind |-> "NegativeLookahead", expression |-> e]
Rule(name, rhs) == [kind |-> "Rule", name |-> name, rhs |-> rhs]

\* The expression objects of the grammar under test.  An object's index is
\* its identity, id(self); sub-expressions are named by index, so one object
\* (Literal 1 below) may be shared by several parents.
Objects ==
    << Literal(<<"x">>),                      \*  1  "x"
       Literal(<<"y">>),                      \*  2  "y"
       Literal(<<"x", "y">>),                 \*  3  "xy"
       RegEx(Run({"x"}, 1)),                  \*  4  x+
       RegEx(Run({"x"}, 0)),                  \*  5  x*
       Terminal(<<"X">>, <<"x">>),            \*  6  X <- "x"
       Name(<<"X">>),                         \*  7  X
       Optional(1),                           \*  8  "x"?
       Some(8),                               \*  9  ("x"?)*
       Alts(<<1, 4>>),                        \* 10  "x" / x+
       Alts(<<2, 3, 4>>),                     \* 11  "y" / "xy" / x+
       Sequence(<<1, 1, 2>>),                 \* 12  "x" "x" "y"
       Alts(<<12, 4>>),                       \* 13  "x" "x" "y" / x+
       Optional(12),                          \* 14  ("x" "x" "y")?
       Sequence(<<14, 1>>),                   \* 15  ("x" "x" "y")? "x"
       PositiveLookahead(3),                  \* 16  &"xy"
       Sequence(<<16, 4>>),                   \* 17  &"xy" x+
       NegativeLookahead(2),                  \* 18  !"y"
       Sequence(<<18, 10>>),                  \* 19  !"y" ("x" / x+)
       Many(11),                              \* 20  ("y" / "xy" / x+)+
       Many(8),                               \* 21  ("x"?)+
       Some(10),                              \* 22  ("x" / x+)*
       Name(<<"b">>),                         \* 23  b
       Alts(<<1>>),                           \* 24  "x"
       Rule(<<"b">>, 24),                     \* 25  b <- "x"
       Alts(<<23>>),                          \* 26  b
       Rule(<<"a">>, 26),                     \* 27  a <- b
       Name(<<"a">>),                         \* 28  a
       PositiveLookahead(28),                 \* 29  &a
       Sequence(<<29, 23>>),                  \* 30  &a b
       Alts(<<30>>),                          \* 31  &a b
       Rule(<<"s">>, 31),                     \* 32  s <- &a b
       Name(<<"l">>),                         \* 33  l
       Sequence(<<33, 1>>),                   \* 34  l "x"
       Alts(<<34, 1>>),                       \* 35  l "x" / "x"
       Rule(<<"l">>, 35),                     \* 36  l <- l "x" / "x"
       Name(<<"r">>),                         \* 37  r
       Sequence(<<1, 37>>),                   \* 38  "x" r
       Alts(<<38, 2>>),                       \* 39  "x" r / "y"
       Rule(<<"r">>, 39),                     \* 40  r <- "x" r / "y"
       Name(<<"m">>),                         \* 41  m (no such rule)
       Alts(<<2, 41>>),                       \* 42  "y" / m
       Rule(<<"R">>, 24),                     \* 43  R <- "x"
       Name(<<"R">>),                         \* 44  R
       Sequence(<<>>),                        \* 45  the empty sequence
       Alts(<<44, 1>>)                        \* 46  R / "x"
    >>

Ids == 1..Len(Objects)

\* str.isupper(): some cased character, and no lower-case one
UpperCase == {"X", "R"}
LowerCase == {"a", "b", "l", "m", "r", "s"}
isupper(name) ==
    /\ \E k \in 1..Len(name) : name[k] \in UpperCase
    /\ \A k \in 1..Len(name) : name[k] \notin LowerCase

\* Grammar.from_list: the dicts {rule.name: rule} and {term.name: term}
grammar_rules ==
    {<<Objects[i].name, i>> : i \in {j \in Ids : Objects[j].kind = "Rule"}}
grammar_terminals ==
    {<<Objects[i].name, i>> : i \in {j \in Ids : Objects[j].kind = "Terminal"}}

Lookup(dict, name) ==
    IF \E kv \in dict : kv[1] = name
    THEN (CHOOSE kv \in dict : kv[1] = name)[2]
    ELSE 0

\* getitem looking every name up among the rules
getitem_rule(name) == Lookup(grammar_rules, name)

\* Grammar.__getitem__: the object registered under name, 0 for KeyError
getitem(name) ==
    IF isupper(name)
    THEN Lookup(grammar_terminals, name)
    ELSE Lookup(grammar_rules, name)

(* ------------------------------ the state ---------------------------- *)

VARIABLES
    text,       \* the text being parsed
    root,       \* the expression whose match() the caller invoked
    origin,     \* the position the caller passed
    heap,       \* the Node objects created so far; a Node is named by its index
    cache,      \* the cache dict: (id(self), position) -> Node or None
    stack,      \* the match() calls in progress, innermost last
    status,     \* "running", "returned", "KeyError" or "RecursionError"
    ret,        \* what the outermost match() returned
    ncalls,     \* history: how often _match ran for a key
    first,      \* history: what the first match() that returned for a key returned
    last,       \* history: the match() that returned most recently
    stamps,     \* history: how often each Node's type_ was assigned
    maker,      \* history: the expression whose _match created each Node
    rules,      \* TokenGenerator.rules: the (name, pattern) pairs, in dict order
    _text_idx,  \* TokenGenerator._text_idx
    outcome,    \* what the last __next__ did, and the offset it started from
    delivered,  \* history: the values of the tokens __next__ returned, joined
    _tokens,    \* Lexer._tokens
    _token_idx, \* Lexer._token_idx
    marks,      \* history: the values mark() has returned
    lexout,     \* what the last call on the Lexer did
    trail,      \* history: the calls made since the last mark()
    looked,     \* what the last row/column computation returned
    other,      \* the second match() of two, while the first one runs
    lane,       \* which of the two matches is running: 1 or 2 (0: there is one)
    together    \* history: what the two returned when they ran interleaved

genvars == <<rules, _text_idx, outcome, delivered>>

lexervars == <<_tokens, _token_idx, marks, lexout, trail>>

lexvars == <<genvars, lexervars, looked>>

twovars == <<other, lane, together>>

elsewhere == <<lexvars, twovars>>

vars == <<text, root, origin, heap, cache, stack, status, ret,
          ncalls, first, last, stamps, maker, elsewhere>>

None == 0

\* A child of a Node is a matched substring (Literal, RegEx, Terminal) or
\* another Node.
Str(s) == [node |-> 0, text |-> s]
Ref(n) == [node |-> n, text |-> <<>>]

\* Node(children, start, end): type_ defaults to ""
Node(children, start, end) ==
    [children |-> children, start |-> start, end |-> end, type_ |-> <<>>]

Refs(results) == [k \in 1..Len(results) |-> Ref(results[k])]

\* a call of match(text, position, grammar, cache) on object e
Frame(e, position) ==
    [e |-> e, position |-> position, pc |-> "match", i |-> 0,
     results |-> <<>>, _position |-> position, result |-> None]

Top == stack[Len(stack)]
Obj == Objects[Top.e]
Key == <<Top.e, Top.position>>

NoLast == [e |-> 0, position |-> 0, value |-> None, hit |-> FALSE, n |-> 0]

\* what a caller sees of a returned value
Outcome(h, value) ==
    IF value = None
    THEN [node |-> None, children |-> <<>>, start |-> 0, end |-> 0, type_ |-> <<>>]
    ELSE [node |-> value, children |-> h[value].children, start |-> h[value].start,
          end |-> h[value].end, type_ |-> h[value].type_]

\* no __next__ has been called yet
NoOutcome ==
    [kind |-> "none", at |-> 0, type_ |-> "", value |-> <<>>, text |-> <<>>,
     character |-> "", position |-> 0, row_col |-> <<0, 0>>]

\* lexer.Token(type_, value)
NoToken == [type_ |-> "", value |-> <<>>]

\* no call has been made on the Lexer yet
NoLexout ==
    [op |-> "none", token |-> NoToken, raised |-> "none", calls |-> 0,
     idx |-> 0, buffer |-> <<>>, arg |-> 0]

NoTrail ==
    [phase |-> "none", m |-> 0, k |-> 0, token |-> NoToken, raised |-> "none",
     len |-> 0]

NoLooked == [by |-> "none", position |-> 0, row_col |-> <<0, 0>>]

\* a match() that has not started: what it was called with, and what it owns
Fresh(t, e, position) ==
    [text |-> t, root |-> e, origin |-> position, heap |-> <<>>, cache |-> <<>>,
     stack |-> <<Frame(e, position)>>, status |-> "running", ret |-> None,
     ncalls |-> <<>>, first |-> <<>>, last |-> NoLast, stamps |-> <<>>,
     maker |-> <<>>]

NoOther == [Fresh(<<>>, 0, 0) EXCEPT !.stack = <<>>, !.status = "none"]

\* there is no second match()
Single ==
    /\ other = NoOther
    /\ lane = 0
    /\ together = <<>>

\* the state of everything a parse does not touch
Untouched ==
    /\ _text_idx = 0
    /\ outcome = NoOutcome
    /\ delivered = <<>>
    /\ _tokens = <<>>
    /\ _token_idx = 0
    /\ marks = {}
    /\ lexout = NoLexout
    /\ trail = NoTrail
    /\ looked = NoLooked

Init ==
    /\ text \in Texts
    /\ root \in Ids
    /\ origin \in 0..Len(text)
    /\ heap = <<>>
    /\ cache = <<>>
    /\ stack = <<Frame(root, origin)>>
    /\ status = "running"
    /\ ret = None
    /\ ncalls = <<>>
    /\ first = <<>>
    /\ last = NoLast
    /\ stamps = <<>>
    /\ maker = <<>>
    /\ rules = <<>>
    /\ Untouched
    /\ Single

Running == status = "running" /\ stack # <<>>

(* ------------------------- calls and returns ------------------------- *)

\* the top frame's match() returns value to its caller; h is the heap by then
Deliver(h, value, hit) ==
    /\ stack' = IF Len(stack) = 1
                THEN <<>>
                ELSE [SubSeq(stack, 1, Len(stack) - 1)
                        EXCEPT ![Len(stack) - 1].result = value,
                               ![Len(stack) - 1].pc = "resume"]
    /\ status' = IF Len(stack) = 1 THEN "returned" ELSE status
    /\ ret' = IF Len(stack) = 1 THEN value ELSE ret
    /\ first' = IF Key \in DOMAIN first THEN first
                ELSE (Key :> Outcome(h, value)) @@ first
    /\ last' = [e |-> Top.e, position |-> Top.position, value |-> value,
                hit |-> hit, n |-> Top.i]

\* Store into a cache that keeps the newest entry only
StoreAlone(h, value) ==
    /\ heap' = h
    /\ cache' = (Key :> value)
    /\ Deliver(h, value, FALSE)
    /\ UNCHANGED <<text, root, origin, ncalls, elsewhere>>

\* the tail of match(): _match gave value; store it under the key and return it
Store(h, value) ==
    /\ heap' = h
    /\ cache' = (Key :> value) @@ cache
    /\ Deliver(h, value, FALSE)
    /\ UNCHANGED <<text, root, origin, ncalls, elsewhere>>

\* _match returns a Node it creates
StoreNew(node) ==
    /\ Store(Append(heap, node), Len(heap) + 1)
    /\ stamps' = Append(stamps, 0)
    /\ maker' = Append(maker, Top.e)

\* _match returns None or a Node it was handed
StoreOld(value) ==
    /\ Store(heap, value)
    /\ UNCHANGED <<stamps, maker>>

\* the top frame, changed to f, calls child.match(text, position, grammar, cache)
Call(f, child, position) ==
    /\ IF Len(stack) >= RecursionLimit
       THEN /\ status' = "RecursionError"
            /\ stack' = stack
       ELSE /\ status' = status
            /\ stack' = Append([stack EXCEPT ![Len(stack)] =
                                   [f EXCEPT !.pc = "wait", !.i = f.i + 1]],
                               Frame(child, position))
    /\ UNCHANGED <<text, root, origin, heap, cache, ret, ncalls, first, last,
                   stamps, maker, elsewhere>>

\* Expression.match, Rule.match, Terminal.match: the cache lookup
Match ==
    /\ Running
    /\ Top.pc = "match"
    /\ IF Key \in DOMAIN cache
       THEN /\ Deliver(heap, cache[Key], TRUE)
            /\ UNCHANGED <<text, root, origin, heap, cache, ncalls, stamps, maker,
                           elsewhere>>
       ELSE /\ stack' = [stack EXCEPT ![Len(stack)].pc = "_match"]
            /\ ncalls' = (Key :> (IF Key \in DOMAIN ncalls THEN ncalls[Key] + 1 ELSE 1))
                            @@ ncalls
            /\ UNCHANGED <<text, root, origin, heap, cache, status, ret, first,
                           last, stamps, maker, elsewhere>>

At(kind, pc) == Running /\ Top.pc = pc /\ Obj.kind = kind

(* ----------------------------- terminals ----------------------------- *)

\* the Node of a pattern match that ends at offset end, None for no match
Matched(end) ==
    IF end = NoMatch
    THEN StoreOld(None)
    ELSE StoreNew(Node(<<Str(Slice(text, Top.position, end))>>, Top.position, end))

Terminal_match ==
    /\ At("Terminal", "_match")
    /\ Matched(PatternMatch(Escaped(Obj.term), text, Top.position))

Literal_match ==
    /\ At("Literal", "_match")
    /\ Matched(PatternMatch(Escaped(Obj.literal), text, Top.position))

RegEx_match ==
    /\ At("RegEx", "_match")
    /\ Matched(PatternMatch(Obj.pattern, text, Top.position))

(* --------------------------- rules and names ------------------------- *)

\* Name._match: look the name up, then delegate
Name_match ==
    /\ At("Name", "_match")
    /\ IF getitem(Obj.name) = 0
       THEN /\ status' = "KeyError"
            /\ UNCHANGED <<text, root, origin, heap, cache, stack, ret, ncalls,
                           first, last, stamps, maker, elsewhere>>
       ELSE Call(Top, getitem(Obj.name), Top.position)

Name_resume ==
    /\ At("Name", "resume")
    /\ StoreOld(Top.result)

\* Rule._match: delegate to the right hand side
Rule_match ==
    /\ At("Rule", "_match")
    /\ Call(Top, Obj.rhs, Top.position)

\* result.type_ = self.name, on the Node the right hand side returned
Stamp(h, n, name) == [h EXCEPT ![n].type_ = name]

Rule_resume ==
    /\ At("Rule", "resume")
    /\ IF Top.result # None
       THEN /\ Store(Stamp(heap, Top.result, Obj.name), Top.result)
            /\ stamps' = [stamps EXCEPT ![Top.result] = @ + 1]
            /\ UNCHANGED maker
       ELSE StoreOld(None)

(* ------------------------------ choice ------------------------------- *)

\* Alts._match: for alt in self.alts, from the first one
Alts_match ==
    /\ At("Alts", "_match")
    /\ IF Obj.alts = <<>>
       THEN StoreOld(None)
       ELSE Call(Top, Obj.alts[1], Top.position)

\* AltsDone without the early return: the loop runs through every item
AltsLast(result, tried, alts) == tried = Len(alts)

\* whether the for loop of Alts._match ends with this result
AltsDone(result, tried, alts) == result # None \/ tried = Len(alts)

Alts_resume ==
    /\ At("Alts", "resume")
    /\ IF AltsDone(Top.result, Top.i, Obj.alts)
       THEN StoreOld(Top.result)
       ELSE Call(Top, Obj.alts[Top.i + 1], Top.position)

(* ----------------------------- sequence ------------------------------ *)

Sequence_match ==
    /\ At("Sequence", "_match")
    /\ IF Obj.expressions = <<>>
       THEN StoreNew(Node(<<>>, Top.position, Top.position))
       ELSE Call(Top, Obj.expressions[1], Top.position)

\* Collect without _position = result.end
CollectInPlace(f, result) == [f EXCEPT !.results = Append(@, result)]

\* the frame after results.append(result); _position = result.end
Collect(f, result) ==
    [f EXCEPT !.results = Append(@, result), !._position = heap[result].end]

\* Sequence_fail returning the items matched so far as a Node
Sequence_partial(f) == StoreNew(Node(Refs(f.results), f.position, f._position))

\* an item gave no match: return None
Sequence_fail(f) == StoreOld(None)

Sequence_resume ==
    /\ At("Sequence", "resume")
    /\ IF Top.result = None
       THEN Sequence_fail(Top)
       ELSE IF Top.i = Len(Obj.expressions)
            THEN StoreNew(Node(Refs(Collect(Top, Top.result).results), Top.position,
                               Collect(Top, Top.result)._position))
            ELSE Call(Collect(Top, Top.result), Obj.expressions[Top.i + 1],
                      Collect(Top, Top.result)._position)

(* ----------------------------- optional ------------------------------ *)

Optional_match ==
    /\ At("Optional", "_match")
    /\ Call(Top, Obj.optional, Top.position)

Optional_resume ==
    /\ At("Optional", "resume")
    /\ IF Top.result # None
       THEN StoreOld(Top.result)
       ELSE StoreNew(Node(<<>>, Top.position, Top.position))

(* ---------------------------- repetition ----------------------------- *)

\* if result.end - result.start == 0: break
ZeroWidth(result) == heap[result].end - heap[result].start = 0

\* Loop with `continue` for `break`: a zero-width match is dropped and the
\* loop goes on from the same position
LoopContinue(f) ==
    IF f.result = None
    THEN StoreNew(Node(Refs(f.results), f.position, f._position))
    ELSE IF ZeroWidth(f.result)
         THEN Call([f EXCEPT !.i = @ - 1], Obj.expression, f._position)
         ELSE Call(Collect(f, f.result), Obj.expression, Collect(f, f.result)._position)

\* Loop leaving after the first match it collects
LoopOnce(f) ==
    IF f.result = None \/ ZeroWidth(f.result)
    THEN StoreNew(Node(Refs(f.results), f.position, f._position))
    ELSE StoreNew(Node(Refs(Collect(f, f.result).results), f.position,
                       Collect(f, f.result)._position))

\* the while loop shared by Some._match and Many._match, after a call of
\* self.expression.match returned into frame f
Loop(f) ==
    IF f.result = None \/ ZeroWidth(f.result)
    THEN StoreNew(Node(Refs(f.results), f.position, f._position))
    ELSE Call(Collect(f, f.result), Obj.expression, Collect(f, f.result)._position)

Some_match ==
    /\ At("Some", "_match")
    /\ Call(Top, Obj.expression, Top.position)

Some_resume ==
    /\ At("Some", "resume")
    /\ Loop(Top)

Many_match ==
    /\ At("Many", "_match")
    /\ Call(Top, Obj.expression, Top.position)

\* Many_resume with results = [] for results = [head]
Many_headless ==
    /\ At("Many", "resume")
    /\ IF Top.i = 1
       THEN IF Top.result = None
            THEN StoreOld(None)
            ELSE Call([Top EXCEPT !._position = heap[Top.result].end], Obj.expression,
                      heap[Top.result].end)
       ELSE Loop(Top)

\* the head is collected whatever its width; the loop follows
Many_resume ==
    /\ At("Many", "resume")
    /\ IF Top.i = 1
       THEN IF Top.result = None
            THEN StoreOld(None)
            ELSE Call(Collect(Top, Top.result), Obj.expression,
                      Collect(Top, Top.result)._position)
       ELSE Loop(Top)

(* ---------------------------- lookaheads ----------------------------- *)

PositiveLookahead_match ==
    /\ At("PositiveLookahead", "_match")
    /\ Call(Top, Obj.expression, Top.position)

\* PositiveLookahead_resume handing on the Node of the expression looked for
PositiveLookahead_consume ==
    /\ At("PositiveLookahead", "resume")
    /\ StoreOld(Top.result)

PositiveLookahead_resume ==
    /\ At("PositiveLookahead", "resume")
    /\ IF Top.result # None
       THEN StoreNew(Node(<<>>, Top.position, Top.position))
       ELSE StoreOld(None)

NegativeLookahead_match ==
    /\ At("NegativeLookahead", "_match")
    /\ Call(Top, Obj.expression, Top.position)

NegativeLookahead_resume ==
    /\ At("NegativeLookahead", "resume")
    /\ IF Top.result # None
       THEN StoreOld(None)
       ELSE StoreNew(Node(<<>>, Top.position, Top.position))

(* -------------------------- the specification ------------------------ *)

Next ==
    \/ Match
    \/ Terminal_match
    \/ Literal_match
    \/ RegEx_match
    \/ Name_match
    \/ Name_resume
    \/ Rule_match
    \/ Rule_resume
    \/ Alts_match
    \/ Alts_resume
    \/ Sequence_match
    \/ Sequence_resume
    \/ Optional_match
    \/ Optional_resume
    \/ Some_match
    \/ Some_resume
    \/ Many_match
    \/ Many_resume
    \/ PositiveLookahead_match
    \/ PositiveLookahead_resume
    \/ NegativeLookahead_match
    \/ NegativeLookahead_resume

Spec == Init /\ [][Next]_vars

\* a call in progress takes its next step: the interpreter does not stall
FairSpec == Spec /\ WF_vars(Next)

(* ---------------------------- two matches ---------------------------- *)

\* Two calls of match() on expressions of the one grammar, each with its own
\* text and its own cache, take their steps in any order; then each is run
\* again from the start, alone.

TwoTexts == UNION {[1..n -> Alphabet] : n \in 0..MaxTwoLen}

\* X; ("x"?)*; !"y" ("x" / x+); ("x"?)+; s <- &a b
TwoRoots == {7, 9, 19, 21, 32}

\* the running match(): its arguments, its frames and what it has made
Own ==
    [text |-> text, root |-> root, origin |-> origin, heap |-> heap,
     cache |-> cache, stack |-> stack, status |-> status, ret |-> ret,
     ncalls |-> ncalls, first |-> first, last |-> last, stamps |-> stamps,
     maker |-> maker]

\* one cache, and its Nodes, for every match()
Shared(o) == [heap |-> heap, cache |-> cache, stamps |-> stamps, maker |-> maker]

\* the cache match() o was passed, and the Nodes made under it
Owned(o) == [heap |-> o.heap, cache |-> o.cache, stamps |-> o.stamps, maker |-> o.maker]

\* match() o becomes the running one
Load(o) ==
    /\ text' = o.text
    /\ root' = o.root
    /\ origin' = o.origin
    /\ heap' = o.heap
    /\ cache' = o.cache
    /\ stack' = o.stack
    /\ status' = o.status
    /\ ret' = o.ret
    /\ ncalls' = o.ncalls
    /\ first' = o.first
    /\ last' = o.last
    /\ stamps' = o.stamps
    /\ maker' = o.maker

\* the Nodes below Node n of heap h, in preorder, with the matched substrings
RECURSIVE Shape(_, _)
RECURSIVE ShapeOf(_, _, _)
Shape(h, n) ==
    <<[start |-> h[n].start, end |-> h[n].end, type_ |-> h[n].type_,
       width |-> Len(h[n].children)]>> \o ShapeOf(h, h[n].children, 1)
ShapeOf(h, children, k) ==
    IF k > Len(children) THEN <<>>
    ELSE (IF children[k].node = 0
          THEN <<[start |-> 0, end |-> 0, type_ |-> children[k].text, width |-> 0]>>
          ELSE Shape(h, children[k].node))
            \o ShapeOf(h, children, k + 1)

\* what match() o returned or raised
Result(o) ==
    [status |-> o.status, matched |-> o.ret # None,
     shape |-> IF o.ret = None THEN <<>> ELSE Shape(o.heap, o.ret)]

\* the other match() takes the next step
Switch ==
    /\ lane \in {1, 2}
    /\ together = <<>>
    /\ other.status = "running"
    /\ Load([other EXCEPT !.heap = Owned(other).heap, !.cache = Owned(other).cache,
                          !.stamps = Owned(other).stamps,
                          !.maker = Owned(other).maker])
    /\ other' = Own
    /\ lane' = 3 - lane
    /\ UNCHANGED <<together, lexvars>>

\* both have stopped: the first is called again, with an empty cache
Alone ==
    /\ lane \in {1, 2}
    /\ together = <<>>
    /\ status # "running"
    /\ other.status # "running"
    /\ LET a == IF lane = 1 THEN Own ELSE other
           b == IF lane = 1 THEN other ELSE Own
       IN /\ together' = <<Result(a), Result(b)>>
          /\ Load(Fresh(a.text, a.root, a.origin))
          /\ other' = Fresh(b.text, b.root, b.origin)
    /\ lane' = 1
    /\ UNCHANGED lexvars

\* the first has stopped again: the second is called again
Second ==
    /\ lane = 1
    /\ together # <<>>
    /\ status # "running"
    /\ other.status = "running"
    /\ Load(other)
    /\ other' = Own
    /\ lane' = 2
    /\ UNCHANGED <<together, lexvars>>

TwoInit ==
    /\ text \in TwoTexts
    /\ root \in TwoRoots
    /\ origin = 0
    /\ heap = <<>>
    /\ cache = <<>>
    /\ stack = <<Frame(root, origin)>>
    /\ status = "running"
    /\ ret = None
    /\ ncalls = <<>>
    /\ first = <<>>
    /\ last = NoLast
    /\ stamps = <<>>
    /\ maker = <<>>
    /\ rules = <<>>
    /\ Untouched
    /\ other \in {Fresh(t, e, 0) : t \in TwoTexts, e \in TwoRoots}
    /\ lane = 1
    /\ together = <<>>

TwoNext == Next \/ Switch \/ Alone \/ Second

TwoSpec == TwoInit /\ [][TwoNext]_vars

(* --------------------------- the tokenizer --------------------------- *)

LexAlphabet == {"x", "y", "\n"}

LexTexts == UNION {[1..n -> LexAlphabet] : n \in 0..MaxLen}

\* the named patterns a rules mapping is drawn from
Patterns ==
    { <<"X", Escaped(<<"x">>)>>,          \* x
      <<"XS", Run({"x"}, 1)>>,            \* x+
      <<"XY", Escaped(<<"x", "y">>)>>,    \* xy
      <<"W", Run({"y", "\n"}, 1)>>,       \* [y\n]+
      <<"E", Run({"x"}, 0)>>,             \* x*
      <<"N", Escaped(<<"\n">>)>> }        \* \n

\* the mappings: up to MaxRules entries, each name once, in any order
RuleMaps ==
    {m \in UNION {[1..n -> Patterns] : n \in 1..MaxRules} :
        \A j, k \in 1..Len(m) : j # k => m[j] # m[k]}

\* for rule, pattern in self.rules.items(): the index of the first entry, from
\* the k-th on, whose pattern matches at offset idx; 0 when the loop runs out
RECURSIVE FirstRule(_, _, _, _)
FirstRule(rs, k, s, idx) ==
    IF k > Len(rs) THEN 0
    ELSE IF PatternMatch(rs[k][2], s, idx) # NoMatch THEN k
    ELSE FirstRule(rs, k + 1, s, idx)

\* row_col_from without the test for a line break
row_col_one_line(s, idx, current, row, col) == <<row, col + (idx - current)>>

\* TokenGenerator.row_col: the loop from current = 0 to current = idx, which
\* has reached current with row and col
RECURSIVE row_col_from(_, _, _, _, _)
row_col_from(s, idx, current, row, col) ==
    IF current = idx THEN <<row, col>>
    ELSE IF s[current + 1] = "\n"
         THEN row_col_from(s, idx, current + 1, row + 1, 1)
         ELSE row_col_from(s, idx, current + 1, row, col + 1)

row_col(s, idx) == row_col_from(s, idx, 0, 1, 1)

Token(type_, value, at) ==
    [NoOutcome EXCEPT !.kind = "Token", !.type_ = type_, !.value = value, !.at = at]

StopIteration(at) == [NoOutcome EXCEPT !.kind = "StopIteration", !.at = at]

LexingError(s, character, position, rc) ==
    [NoOutcome EXCEPT !.kind = "LexingError", !.at = position, !.text = s,
                      !.character = character, !.position = position, !.row_col = rc]

\* PickRule by the longest match, the earliest one among equals
LongestRule(rs, s, idx) ==
    IF FirstRule(rs, 1, s, idx) = 0 THEN 0
    ELSE CHOOSE k \in 1..Len(rs) :
            /\ \A j \in 1..Len(rs) :
                  PatternMatch(rs[j][2], s, idx) <= PatternMatch(rs[k][2], s, idx)
            /\ \A j \in 1..(k - 1) :
                  PatternMatch(rs[j][2], s, idx) < PatternMatch(rs[k][2], s, idx)

\* the rule _generate_token picks at offset idx
PickRule(rs, s, idx) == FirstRule(rs, 1, s, idx)

\* what __next__ does at offset idx: the Token _generate_token returns, or
\* the exception raised
generate_token(rs, s, idx) ==
    IF idx >= Len(s)
    THEN StopIteration(idx)
    ELSE IF PickRule(rs, s, idx) # 0
         THEN Token(rs[PickRule(rs, s, idx)][1],
                    Slice(s, idx, PatternMatch(rs[PickRule(rs, s, idx)][2], s, idx)),
                    idx)
         ELSE LexingError(s, s[idx + 1], idx, row_col(s, idx))

\* end, stepping over a character that no pattern matches
end_or_skip(rs, s, idx) ==
    IF idx >= Len(s) THEN idx
    ELSE IF PickRule(rs, s, idx) # 0
         THEN PatternMatch(rs[PickRule(rs, s, idx)][2], s, idx)
         ELSE idx + 1

\* self._text_idx = result.end(), when a pattern matched
end(rs, s, idx) ==
    IF idx < Len(s) /\ PickRule(rs, s, idx) # 0
    THEN PatternMatch(rs[PickRule(rs, s, idx)][2], s, idx)
    ELSE idx

\* what a call of __next__ does to the generator
Generate ==
    /\ outcome' = generate_token(rules, text, _text_idx)
    /\ _text_idx' = end(rules, text, _text_idx)
    /\ delivered' = delivered \o outcome'.value
    /\ UNCHANGED rules

\* the parse, which no tokenizer call touches
parse == <<root, origin, heap, cache, stack, status, ret, ncalls, first, last,
           stamps, maker, twovars>>

\* TokenGenerator.__next__, with _generate_token
TokenGenerator_next ==
    /\ Generate
    /\ UNCHANGED <<text, parse, lexervars, looked>>

\* the state of a parse that was never started
NoParse ==
    /\ root = 0
    /\ origin = 0
    /\ heap = <<>>
    /\ cache = <<>>
    /\ stack = <<>>
    /\ status = "lexing"
    /\ ret = None
    /\ ncalls = <<>>
    /\ first = <<>>
    /\ last = NoLast
    /\ stamps = <<>>
    /\ maker = <<>>
    /\ Single

LexInit ==
    /\ text \in LexTexts
    /\ rules \in RuleMaps
    /\ Untouched
    /\ NoParse

LexNext == TokenGenerator_next

LexSpec == LexInit /\ [][LexNext]_vars

(* ----------------------------- the Lexer ------------------------------ *)

\* lexer.Token(type_, value), as __next__ returned it
TokenOf(o) == [type_ |-> o.type_, value |-> o.value]

\* what peek_token() would do in this state, were it called
wouldToken ==
    IF _token_idx < Len(_tokens) THEN _tokens[_token_idx + 1]
    ELSE IF generate_token(rules, text, _text_idx).kind = "Token"
         THEN TokenOf(generate_token(rules, text, _text_idx))
         ELSE NoToken

wouldRaise ==
    IF _token_idx < Len(_tokens) THEN "none"
    ELSE IF generate_token(rules, text, _text_idx).kind = "Token" THEN "none"
    ELSE generate_token(rules, text, _text_idx).kind

\* Peek asking the generator on every call
PeekFresh(op) ==
    /\ Generate
    /\ _tokens' = IF outcome'.kind = "Token"
                  THEN Append(_tokens, TokenOf(outcome')) ELSE _tokens
    /\ lexout' = [op |-> op,
                  token |-> IF outcome'.kind = "Token"
                            THEN TokenOf(outcome') ELSE NoToken,
                  raised |-> IF outcome'.kind = "Token" THEN "none" ELSE outcome'.kind,
                  calls |-> 1, idx |-> _token_idx, buffer |-> _tokens, arg |-> 0]

\* the body of peek_token(), called by op: at the end of the buffer it asks the
\* generator for a token and appends it; next() raising leaves the method
\* before the append
Peek(op) ==
    IF _token_idx = Len(_tokens)
    THEN /\ Generate
         /\ _tokens' = IF outcome'.kind = "Token"
                       THEN Append(_tokens, TokenOf(outcome'))
                       ELSE _tokens
         /\ lexout' = [op |-> op,
                       token |-> IF outcome'.kind = "Token"
                                 THEN _tokens'[_token_idx + 1] ELSE NoToken,
                       raised |-> IF outcome'.kind = "Token"
                                  THEN "none" ELSE outcome'.kind,
                       calls |-> 1, idx |-> _token_idx, buffer |-> _tokens,
                       arg |-> 0]
    ELSE /\ UNCHANGED <<genvars, _tokens>>
         /\ lexout' = [op |-> op, token |-> _tokens[_token_idx + 1],
                       raised |-> "none", calls |-> 0, idx |-> _token_idx,
                       buffer |-> _tokens, arg |-> 0]

\* the buffer may take another token
Room ==
    \/ _token_idx < Len(_tokens)
    \/ Len(_tokens) < MaxTokens
    \/ generate_token(rules, text, _text_idx).kind # "Token"

\* next_token's increment, made whether or not peek_token() returned
advance_always(raised) == _token_idx + 1

\* self._token_idx += 1, which an exception out of peek_token() skips
advance(raised) == IF raised = "none" THEN _token_idx + 1 ELSE _token_idx

peek_token ==
    /\ Room
    /\ Peek("peek_token")
    /\ trail' = IF trail.phase = "rewound"
                THEN [trail EXCEPT !.phase = "peeked"] ELSE NoTrail
    /\ UNCHANGED <<text, parse, _token_idx, marks, looked>>

next_token ==
    /\ Room
    /\ Peek("next_token")
    /\ _token_idx' = advance(lexout'.raised)
    /\ trail' = IF trail.phase = "marked" /\ lexout'.raised = "none"
                THEN [trail EXCEPT !.k = trail.k + 1] ELSE NoTrail
    /\ UNCHANGED <<text, parse, marks, looked>>

mark ==
    /\ lexout' = [NoLexout EXCEPT !.op = "mark", !.arg = _token_idx,
                                  !.idx = _token_idx, !.buffer = _tokens]
    /\ marks' = marks \cup {_token_idx}
    /\ trail' = [phase |-> "marked", m |-> _token_idx, k |-> 0,
                 token |-> wouldToken, raised |-> wouldRaise, len |-> Len(_tokens)]
    /\ UNCHANGED <<text, parse, genvars, _tokens, _token_idx, looked>>

\* rewind dropping the tokens buffered from idx on
rewind_dropping ==
    /\ \E idx \in marks :
          /\ _token_idx' = idx
          /\ _tokens' = SubSeq(_tokens, 1, idx)
          /\ lexout' = [NoLexout EXCEPT !.op = "rewind", !.arg = idx,
                                        !.idx = _token_idx, !.buffer = _tokens]
          /\ trail' = IF trail.phase = "marked" /\ trail.m = idx
                      THEN [trail EXCEPT !.phase = "rewound", !.len = Len(_tokens')]
                      ELSE NoTrail
    /\ UNCHANGED <<text, parse, genvars, marks, looked>>

\* rewind(idx), called with a value mark() returned
rewind ==
    /\ \E idx \in marks :
          /\ _token_idx' = idx
          /\ lexout' = [NoLexout EXCEPT !.op = "rewind", !.arg = idx,
                                        !.idx = _token_idx, !.buffer = _tokens]
          /\ trail' = IF trail.phase = "marked" /\ trail.m = idx
                      THEN [trail EXCEPT !.phase = "rewound", !.len = Len(_tokens)]
                      ELSE NoTrail
    /\ UNCHANGED <<text, parse, genvars, _tokens, marks, looked>>

\* Lexer(TokenGenerator(text, rules))
LexerInit ==
    /\ text \in UNION {[1..n -> LexAlphabet] : n \in 0..MaxLexerLen}
    /\ rules \in {m \in RuleMaps : Len(m) <= MaxLexerRules}
    /\ Untouched
    /\ NoParse

LexerNext == peek_token \/ next_token \/ mark \/ rewind

LexerSpec == LexerInit /\ [][LexerNext]_vars

(* ------------------------- rows and columns -------------------------- *)

\* _compute_row_col: the loop from current = 0 to current = position, which
\* has reached current with row and col
RECURSIVE _compute_row_col_from(_, _, _, _, _)
_compute_row_col_from(s, position, current, row, col) ==
    IF current = position THEN <<row, col>>
    ELSE _compute_row_col_from(s, position, current + 1,
                               IF s[current + 1] = "\n" THEN row + 1 ELSE row,
                               (IF s[current + 1] = "\n" THEN 0 ELSE col) + 1)

_compute_row_col(s, position) == _compute_row_col_from(s, position, 0, 1, 1)

\* TextError.row_col, for an error at any position of the text
TextError_row_col ==
    /\ \E position \in 0..Len(text) :
          looked' = [by |-> "TextError", position |-> position,
                     row_col |-> _compute_row_col(text, position)]
    /\ UNCHANGED <<text, parse, genvars, lexervars>>

\* TokenGenerator.row_col, read at the generator's offset
TokenGenerator_row_col ==
    /\ looked' = [by |-> "TokenGenerator", position |-> _text_idx,
                  row_col |-> row_col(text, _text_idx)]
    /\ UNCHANGED <<text, parse, genvars, lexervars>>

\* a generator whose offset was set to any offset of its text
PosInit ==
    /\ text \in LexTexts
    /\ rules = <<>>
    /\ _text_idx \in 0..Len(text)
    /\ outcome = NoOutcome
    /\ delivered = <<>>
    /\ _tokens = <<>>
    /\ _token_idx = 0
    /\ marks = {}
    /\ lexout = NoLexout
    /\ trail = NoTrail
    /\ looked = NoLooked
    /\ NoParse

PosNext == TextError_row_col \/ TokenGenerator_row_col

PosSpec == PosInit /\ [][PosNext]_vars

(* ============================== claims =============================== *)

LastKey == <<last.e, last.position>>

\* C1: memoization is idempotent.  A match() answered from the cache returns
\* the outcome (no match, or the Node with the start, end, children and tag)
\* that the first match() on that key returned; _match has run once for every
\* key in the cache; and every returned match(), failed or not, is in the cache.
C1_Idempotent ==
    /\ last.hit => Outcome(heap, last.value) = first[LastKey]
    /\ \A key \in DOMAIN cache : ncalls[key] = 1
    /\ last.e # 0 => LastKey \in DOMAIN cache /\ cache[LastKey] = last.value

\* the same, the tag left out of the outcome
C1_IdempotentButTag ==
    /\ last.hit => [Outcome(heap, last.value) EXCEPT !.type_ = <<>>]
                     = [first[LastKey] EXCEPT !.type_ = <<>>]
    /\ \A key \in DOMAIN cache : ncalls[key] = 1
    /\ last.e # 0 => LastKey \in DOMAIN cache /\ cache[LastKey] = last.value

\* C3: a successful Rule.match stamps only its own node.  The Node cached
\* for a successful (Rule R, position) carries the tag R.name, and no Node's
\* tag is assigned more than once.
C3_StampsOwnNode ==
    /\ \A key \in DOMAIN cache :
          Objects[key[1]].kind = "Rule" /\ cache[key] # None
              => heap[cache[key]].type_ = Objects[key[1]].name
    /\ \A n \in 1..Len(heap) : stamps[n] <= 1

Stopped == status # "running"

\* a match() has re-entered a key whose match() is still in progress
Reentrant ==
    \E j, k \in 1..Len(stack) :
        j < k /\ stack[j].e = stack[k].e /\ stack[j].position = stack[k].position

Xs(s, pos) == RunLen(s, pos, {"x"})

\* C4 as stated: ("x"?)* returns an empty-span Node on any input.
C4_EmptySpan ==
    root = 9 /\ status = "returned" => ret # None /\ heap[ret].start = heap[ret].end

\* C4, amended: ("x"?)* terminates and returns a Node that starts at the
\* start position and spans the x's found there, one child for each; the
\* Node is empty exactly when there is no "x" at the start position.
C4_SpansTheRun ==
    root = 9 =>
        <>(/\ status = "returned"
           /\ ret # None
           /\ heap[ret].start = origin
           /\ heap[ret].end = origin + Xs(text, origin)
           /\ Len(heap[ret].children) = Xs(text, origin))

\* ("x"?)* has matched "xx" in "xxy" and stopped at the zero-width match before "y"
C4_Witness ==
    /\ status = "returned"
    /\ root = 9
    /\ text = <<"x", "x", "y">>
    /\ origin = 0
    /\ ret # None
    /\ heap[ret].end = 2
    /\ <<8, 2>> \in DOMAIN cache
    /\ cache[<<8, 2>>] # None
    /\ ZeroWidth(cache[<<8, 2>>])

Cached(e, position) == <<e, position>> \in DOMAIN cache

\* the keys in the cache whose expression is of this kind
Keys(kind) == {key \in DOMAIN cache : Objects[key[1]].kind = kind}

Failed(e, position) == Cached(e, position) /\ cache[<<e, position>>] = None

Succeeded(e, position) == Cached(e, position) /\ cache[<<e, position>>] # None

\* C5: ordered choice.  Alts returns the result of the lowest-index item
\* that matches at its position, every lower item having failed there; it
\* fails only when every item has failed there; and a call that succeeds has
\* evaluated no item after the one whose result it returns.
C5_OrderedChoice ==
    /\ \A j \in 1..(Len(stack) - 1) :
          Objects[stack[j].e].kind = "Alts" =>
              /\ stack[j + 1].e = Objects[stack[j].e].alts[stack[j].i]
              /\ stack[j + 1].position = stack[j].position
    /\ \A key \in Keys("Alts") :
          LET alts == Objects[key[1]].alts
              p == key[2]
          IN IF cache[key] = None
             THEN \A k \in 1..Len(alts) : Failed(alts[k], p)
             ELSE \E k \in 1..Len(alts) :
                     /\ Cached(alts[k], p)
                     /\ cache[<<alts[k], p>>] = cache[key]
                     /\ \A j \in 1..(k - 1) : Failed(alts[j], p)
    /\ last.e # 0 /\ Objects[last.e].kind = "Alts" /\ ~last.hit =>
          LET alts == Objects[last.e].alts
          IN IF last.value = None
             THEN last.n = Len(alts)
             ELSE /\ cache[<<alts[last.n], last.position>>] = last.value
                  /\ \A j \in 1..(last.n - 1) : Failed(alts[j], last.position)

\* "x" / x+ on "xx": both items match at 0; the result is that of "x", and
\* x+ has not been evaluated
C5_Witness ==
    /\ status = "returned"
    /\ root = 10
    /\ text = <<"x", "x">>
    /\ origin = 0
    /\ ret # None
    /\ ret = cache[<<1, 0>>]
    /\ heap[ret].end = 1
    /\ ~Cached(4, 0)
    /\ PatternMatch(Objects[4].pattern, text, 0) = 2

\* where the items of a Sequence, from the k-th on, end when matched from
\* position on, by the results in the cache; NoMatch when one of them fails
RECURSIVE ItemsEnd(_, _, _)
ItemsEnd(items, k, position) ==
    IF k > Len(items) THEN position
    ELSE IF ~Succeeded(items[k], position) THEN NoMatch
    ELSE ItemsEnd(items, k + 1, heap[cache[<<items[k], position>>]].end)

\* a Sequence that failed at last.position has just returned to its caller
SequenceJustFailed ==
    /\ last.e # 0
    /\ Objects[last.e].kind = "Sequence"
    /\ last.value = None
    /\ Running
    /\ Top.pc = "resume"

\* C6: Sequence atomicity.  A Sequence yields no match exactly when one of
\* its items fails, and then creates no Node (every Node a Sequence creates
\* has a child for each item); the caller goes on from the position the
\* Sequence started at: the next alternative of an Alts is called at that
\* position, and an Optional falls back to the empty Node at that position.
C6_SequenceAtomic ==
    /\ \A key \in Keys("Sequence") :
          (cache[key] = None) = (ItemsEnd(Objects[key[1]].expressions, 1, key[2]) = NoMatch)
    /\ \A n \in 1..Len(heap) :
          Objects[maker[n]].kind = "Sequence" =>
              Len(heap[n].children) = Len(Objects[maker[n]].expressions)
    /\ SequenceJustFailed /\ Obj.kind \in {"Alts", "Optional"} =>
          Top.position = last.position
    /\ \A j \in 1..(Len(stack) - 1) :
          Objects[stack[j].e].kind = "Alts" /\ stack[j].i >= 2
            /\ Objects[Objects[stack[j].e].alts[stack[j].i - 1]].kind = "Sequence" =>
              /\ stack[j + 1].position = stack[j].position
              /\ Failed(Objects[stack[j].e].alts[stack[j].i - 1], stack[j + 1].position)
    /\ \A key \in Keys("Optional") :
          Objects[Objects[key[1]].optional].kind = "Sequence"
            /\ Failed(Objects[key[1]].optional, key[2]) =>
              /\ cache[key] # None
              /\ heap[cache[key]].children = <<>>
              /\ heap[cache[key]].start = key[2]
              /\ heap[cache[key]].end = key[2]

\* "x" "x" "y" / x+ on "xx": the Sequence failed at its third item, having
\* advanced to 2, and x+ is now called at 0
C6_Witness ==
    /\ Len(stack) = 2
    /\ stack[1].e = 13
    /\ stack[1].position = 0
    /\ stack[2].e = 4
    /\ stack[2].position = 0
    /\ stack[2].pc = "match"
    /\ Failed(12, 0)
    /\ Succeeded(1, 1)
    /\ heap[cache[<<1, 1>>]].end = 2

Lookaheads == {"PositiveLookahead", "NegativeLookahead"}

\* C7: lookaheads never consume.  A PositiveLookahead succeeds exactly when
\* its expression matches at the position, a NegativeLookahead exactly when it
\* fails there; a success is an empty Node at the position; and a Sequence
\* calls the item after a lookahead at the position the lookahead was at.
C7_LookaheadZeroWidth ==
    /\ \A key \in Keys("PositiveLookahead") :
          /\ Cached(Objects[key[1]].expression, key[2])
          /\ (cache[key] # None) = Succeeded(Objects[key[1]].expression, key[2])
    /\ \A key \in Keys("NegativeLookahead") :
          /\ Cached(Objects[key[1]].expression, key[2])
          /\ (cache[key] # None) = Failed(Objects[key[1]].expression, key[2])
    /\ \A key \in Keys("PositiveLookahead") \cup Keys("NegativeLookahead") :
          cache[key] # None =>
              /\ heap[cache[key]].children = <<>>
              /\ heap[cache[key]].start = key[2]
              /\ heap[cache[key]].end = key[2]
    /\ \A j \in 1..(Len(stack) - 1) :
          Objects[stack[j].e].kind = "Sequence" /\ stack[j].i >= 2
            /\ Objects[Objects[stack[j].e].expressions[stack[j].i - 1]].kind \in Lookaheads =>
              /\ stack[j + 1].position = stack[j]._position
              /\ Succeeded(Objects[stack[j].e].expressions[stack[j].i - 1],
                           stack[j + 1].position)

\* &"xy" x+ on "xy": "xy" matched from 0 to 2, and x+ is now called at 0
C7_Witness ==
    /\ Len(stack) = 2
    /\ stack[1].e = 17
    /\ stack[2].e = 4
    /\ stack[2].position = 0
    /\ Succeeded(3, 0)
    /\ heap[cache[<<3, 0>>]].end = 2
    /\ Succeeded(16, 0)

Nodes == 1..Len(heap)

ChildNodes(n) == [k \in 1..Len(heap[n].children) |-> heap[n].children[k].node]

\* the children of Node n are Nodes that tile its span from start to end
Contiguous(n) ==
    LET c == ChildNodes(n)
    IN /\ \A k \in 1..Len(c) : c[k] \in Nodes
       /\ IF c = <<>>
          THEN heap[n].start = heap[n].end
          ELSE /\ heap[c[1]].start = heap[n].start
               /\ heap[c[Len(c)]].end = heap[n].end
               /\ \A k \in 1..(Len(c) - 1) : heap[c[k + 1]].start = heap[c[k]].end

\* C8: the span invariant.  Every Node lies within the text with start <= end;
\* a Node returned for a match at position p starts at p; and the children of
\* a Node made by Sequence, Some or Many tile its span.
C8_Spans ==
    /\ \A n \in Nodes : 0 <= heap[n].start /\ heap[n].start <= heap[n].end
                          /\ heap[n].end <= Len(text)
    /\ \A key \in DOMAIN cache : cache[key] # None => heap[cache[key]].start = key[2]
    /\ status = "returned" /\ ret # None => heap[ret].start = origin
    /\ \A n \in Nodes :
          Objects[maker[n]].kind \in {"Sequence", "Some", "Many"} => Contiguous(n)

\* ("y" / "xy" / x+)+ on "yxy" from 1: the Node starts at 1 and its one
\* child, "xy", spans it to 3
C8_Witness ==
    /\ status = "returned"
    /\ root = 20
    /\ text = <<"y", "x", "y">>
    /\ origin = 1
    /\ ret # None
    /\ heap[ret].start = 1
    /\ heap[ret].end = 3
    /\ Len(heap[ret].children) = 1

\* the matched substrings at the leaves of Node n, left to right
RECURSIVE Leaves(_)
RECURSIVE LeavesOf(_, _)
Leaves(n) == LeavesOf(heap[n].children, 1)
LeavesOf(children, k) ==
    IF k > Len(children) THEN <<>>
    ELSE (IF children[k].node = 0 THEN children[k].text ELSE Leaves(children[k].node))
            \o LeavesOf(children, k + 1)

\* C9: round trip.  The substrings at the leaves of every Node, concatenated
\* left to right, are text[start:end] of that Node.
C9_RoundTrip ==
    \A n \in Nodes : Leaves(n) = Slice(text, heap[n].start, heap[n].end)

\* ("y" / "xy" / x+)+ has matched all of "xyx": leaves "xy" and "x"
C9_Witness ==
    /\ status = "returned"
    /\ root = 20
    /\ text = <<"x", "y", "x">>
    /\ origin = 0
    /\ ret # None
    /\ Len(heap[ret].children) = 2
    /\ Leaves(ret) = text

\* the entries of the rules mapping whose pattern matches at offset idx
Matching(idx) == {k \in 1..Len(rules) : PatternMatch(rules[k][2], text, idx) # NoMatch}

\* C10: first match.  Called at an offset below len(text) where some pattern
\* matches, __next__ returns the Token of the first such pattern in the order
\* of the mapping, with the substring that pattern matched, and moves the
\* offset to the end of it; called at len(text) or beyond it raises
\* StopIteration and leaves the offset, so that every later call does too.
C10_FirstMatch ==
    /\ outcome.kind # "none" /\ outcome.at < Len(text) /\ Matching(outcome.at) # {} =>
          \E k \in Matching(outcome.at) :
              /\ \A j \in Matching(outcome.at) : k <= j
              /\ outcome.kind = "Token"
              /\ outcome.type_ = rules[k][1]
              /\ outcome.value = Slice(text, outcome.at,
                                       PatternMatch(rules[k][2], text, outcome.at))
              /\ _text_idx = outcome.at + Len(outcome.value)
    /\ outcome.kind # "none" /\ outcome.at >= Len(text) =>
          outcome.kind = "StopIteration" /\ _text_idx = outcome.at
    /\ outcome.kind = "StopIteration" => _text_idx >= Len(text)

\* the Token of x came back at an offset where x+, later in the mapping, would
\* have matched more
C10_Witness ==
    /\ outcome.kind = "Token"
    /\ outcome.type_ = "X"
    /\ outcome.value = <<"x">>
    /\ \E k \in Matching(outcome.at) :
          rules[k][1] = "XS" /\ PatternMatch(rules[k][2], text, outcome.at) = outcome.at + 2


\* the 0-based indices of the line breaks of s[0:offset]
Newlines(s, offset) == {j \in 0..(offset - 1) : s[j + 1] = "\n"}

Greatest(S) == CHOOSE j \in S : \A k \in S : k <= j

\* C16: the row returned for an offset is one more than the number of line
\* breaks before it, the column is the distance from the last of them (the
\* offset plus one when there is none), and TokenGenerator.row_col returns
\* that pair for the generator's own offset.
C16_RowCol ==
    looked.by # "none" =>
        /\ looked.by = "TokenGenerator" => looked.position = _text_idx
        /\ looked.row_col[1] = 1 + Cardinality(Newlines(text, looked.position))
        /\ looked.row_col[2] =
              IF Newlines(text, looked.position) = {}
              THEN looked.position + 1
              ELSE looked.position - Greatest(Newlines(text, looked.position))

\* the generator's offset is one character past a line break
C16_Witness ==
    /\ looked.by = "TokenGenerator"
    /\ text = <<"x", "\n", "y">>
    /\ looked.position = 3
    /\ looked.row_col = <<2, 2>>

\* C11: unrecognized character.  Called at an offset i below len(text) where
\* no pattern matches, __next__ raises LexingError with the text, the
\* character text[i], the position i and the row and column of i; the tokens
\* returned before it make up text[0:i]; the offset stays at i, so the next
\* call raises the same error.  It raises LexingError in no other case.
C11_UnknownCharacter ==
    /\ outcome.kind # "none" /\ outcome.at < Len(text) /\ Matching(outcome.at) = {} =>
          /\ outcome.kind = "LexingError"
          /\ outcome.text = text
          /\ outcome.character = text[outcome.at + 1]
          /\ outcome.position = outcome.at
          /\ outcome.row_col[1] = 1 + Cardinality(Newlines(text, outcome.at))
          /\ outcome.row_col[2] =
                IF Newlines(text, outcome.at) = {}
                THEN outcome.at + 1
                ELSE outcome.at - Greatest(Newlines(text, outcome.at))
          /\ delivered = Slice(text, 0, outcome.at)
          /\ _text_idx = outcome.at
    /\ outcome.kind = "LexingError" =>
          outcome.at < Len(text) /\ Matching(outcome.at) = {}

\* the line break came back as a token, and y on the second row is unknown
C11_Witness ==
    /\ text = <<"\n", "y", "x">>
    /\ rules = << <<"N", Escaped(<<"\n">>)>>, <<"X", Escaped(<<"x">>)>> >>
    /\ outcome.kind = "LexingError"
    /\ outcome.character = "y"
    /\ outcome.position = 1
    /\ outcome.row_col = <<2, 1>>
    /\ delivered = <<"\n">>

\* C19: progress.  Each Token __next__ returns moves the offset forward.
C19_TokenAdvances ==
    outcome.kind = "Token" => _text_idx > outcome.at

\* C12: mark and rewind.  rewind(m) sets the token index to m.  After
\* m = mark(), k successful next_token() calls and rewind(m), the index is m
\* and peek_token() does what it would have done when mark() was called:
\* it returns the same token (or raises the same exception); when k >= 1 it
\* does so without calling the generator and the buffer keeps its length.
C12_MarkRewind ==
    /\ lexout.op = "rewind" => _token_idx = lexout.arg
    /\ trail.phase = "rewound" => _token_idx = trail.m /\ lexout.op = "rewind"
    /\ trail.phase = "peeked" =>
          /\ lexout.op = "peek_token"
          /\ _token_idx = trail.m
          /\ lexout.token = trail.token
          /\ lexout.raised = trail.raised
          /\ trail.k >= 1 =>
                /\ lexout.calls = 0
                /\ lexout.raised = "none"
                /\ Len(_tokens) = trail.len

\* mark() at 0, two tokens taken, rewind(0), and the peek returns the token at 0
C12_Witness ==
    /\ trail.phase = "peeked"
    /\ trail.m = 0
    /\ trail.k = 2
    /\ Len(_tokens) = 2
    /\ lexout.token = _tokens[1]
    /\ lexout.calls = 0

\* a TokenGenerator over s and rs, asked from offset idx on until it has
\* returned n tokens or raises: the tokens it returns and where it then stands
RECURSIVE Produced(_, _, _, _)
Produced(rs, s, idx, n) ==
    LET o == generate_token(rs, s, idx) IN
    IF n = 0 \/ o.kind # "Token" THEN [tokens |-> <<>>, offset |-> idx]
    ELSE LET rest == Produced(rs, s, end(rs, s, idx), n - 1) IN
         [tokens |-> <<TokenOf(o)>> \o rest.tokens, offset |-> rest.offset]

\* C13: replay.  Whatever calls of peek_token, next_token, mark and rewind
\* (with marked values) are made, a call only ever appends to the buffer; the
\* buffer is the first len(buffer) tokens of a TokenGenerator over the same
\* text and rules, and the Lexer's generator stands where that one stands
\* after them, having been asked only at the end of the buffer and appended
\* one token per token returned; the index stays within 0..len(buffer); and
\* a call at index i returns the i-th token of the buffer, hence of that
\* stream.
C13_Replay ==
    /\ Len(lexout.buffer) <= Len(_tokens)
    /\ SubSeq(_tokens, 1, Len(lexout.buffer)) = lexout.buffer
    /\ LET replay == Produced(rules, text, 0, Len(_tokens))
       IN _tokens = replay.tokens /\ _text_idx = replay.offset
    /\ lexout.calls = 1 => lexout.idx = Len(lexout.buffer)
    /\ Len(_tokens) = Len(lexout.buffer)
                        + (IF lexout.calls = 1 /\ lexout.raised = "none" THEN 1 ELSE 0)
    /\ 0 <= _token_idx /\ _token_idx <= Len(_tokens)
    /\ lexout.op \in {"peek_token", "next_token"} /\ lexout.raised = "none" =>
          /\ lexout.idx < Len(_tokens)
          /\ lexout.token = _tokens[lexout.idx + 1]

\* after a rewind to 0 with two tokens buffered, next_token() has returned
\* the token at 1 from the buffer
C13_Witness ==
    /\ Len(_tokens) = 2
    /\ lexout.op = "next_token"
    /\ lexout.idx = 1
    /\ lexout.calls = 0
    /\ lexout.token = _tokens[2]
    /\ _token_idx = 2
    /\ 0 \in marks

\* C20: nothing to supply.  When peek_token() or next_token() is called with
\* the index at the end of the buffer and the generator is at the end of the
\* text or at a character no pattern matches, the call raises what the
\* generator raises and leaves the buffer and the index as they were, so
\* every mark taken so far is still an index of the buffer.
C20_NothingSupplied ==
    /\ lexout.op \in {"peek_token", "next_token"}
       /\ lexout.idx = Len(lexout.buffer)
       /\ (outcome.at >= Len(text) \/ Matching(outcome.at) = {}) =>
          /\ lexout.raised = (IF outcome.at >= Len(text)
                              THEN "StopIteration" ELSE "LexingError")
          /\ lexout.raised = outcome.kind
          /\ _tokens = lexout.buffer
          /\ _token_idx = lexout.idx
          /\ \A m \in marks : m <= Len(_tokens)

\* next_token() after one token, at a line break no pattern matches
C20_Witness ==
    /\ lexout.op = "next_token"
    /\ lexout.raised = "LexingError"
    /\ lexout.idx = 1
    /\ Len(_tokens) = 1
    /\ _token_idx = 1
    /\ 1 \in marks

\* the Rules registered under name n, and the Terminals
RulesNamed(n) == {i \in Ids : Objects[i].kind = "Rule" /\ Objects[i].name = n}
TerminalsNamed(n) == {i \in Ids : Objects[i].kind = "Terminal" /\ Objects[i].name = n}

\* the frames of Names that have resolved their name, and the cached Names
Resolved ==
    {k \in 1..Len(stack) :
        Objects[stack[k].e].kind = "Name" /\ stack[k].pc \in {"wait", "resume"}}
CachedNames == {key \in DOMAIN cache : Objects[key[1]].kind = "Name"}

\* where a Name is looked up: Found(n) is the set of objects it may resolve to.
\* A KeyError comes from a Name that has been called, for a name with nothing
\* registered; a Name that has resolved, or returned, did so to an object
\* registered under its name, called at the Name's position.
Resolves(Found(_)) ==
    /\ status = "KeyError" =>
          /\ Obj.kind = "Name"
          /\ Top.pc = "_match"
          /\ Found(Obj.name) = {}
    /\ \A k \in Resolved :
          /\ Found(Objects[stack[k].e].name) # {}
          /\ k < Len(stack) =>
                /\ stack[k + 1].e \in Found(Objects[stack[k].e].name)
                /\ stack[k + 1].position = stack[k].position
    /\ \A key \in CachedNames :
          \E i \in Found(Objects[key[1]].name) :
              /\ <<i, key[2]>> \in DOMAIN cache
              /\ cache[<<i, key[2]>>] = cache[key]

\* C14 as claimed: a Name resolves to the Rule of its name, however the name
\* is spelled, and raises exactly when there is no such Rule.
C14_ResolvesToRule == Resolves(RulesNamed)

FoundByCase(n) == IF isupper(n) THEN TerminalsNamed(n) ELSE RulesNamed(n)

\* C14: a Name is resolved when it is called: an upper-case name among the
\* Terminals, any other among the Rules.  It delegates to the object found
\* there and raises KeyError exactly when that table has none, also when
\* the other table has one.
C14_ResolvesByCase == Resolves(FoundByCase)

\* R / "x" with the rule R <- "x" registered: R is looked up among the Terminals
C14_Witness ==
    /\ status = "KeyError"
    /\ root = 46
    /\ Obj.name = <<"R">>
    /\ RulesNamed(<<"R">>) # {}
    /\ 43 \notin {key[1] : key \in DOMAIN ncalls}

\* C15 as claimed: the cache holds at most (number of expression objects) x
\* len(text) entries.
C15_AtMostLenEach ==
    Cardinality(DOMAIN cache) <= Len(Objects) * Len(text)

\* C15: a step of a match removes no cache entry and changes none; the keys
\* are (expression object, position) pairs with origin <= position <=
\* len(text), so the cache holds at most (number of expression objects) x
\* (len(text) + 1) entries.
C15_CacheGrows ==
    [][ /\ \A key \in DOMAIN cache :
              key \in DOMAIN cache' /\ cache'[key] = cache[key]
        /\ DOMAIN cache' \subseteq Ids \X (origin..Len(text))
        /\ Cardinality(DOMAIN cache') <= Len(Objects) * (Len(text) + 1) ]_vars

\* ("x"?)* on the empty text has cached "x", "x"? and itself at position 0
C15_Witness ==
    /\ text = <<>>
    /\ root = 9
    /\ status = "returned"
    /\ DOMAIN cache = {<<1, 0>>, <<8, 0>>, <<9, 0>>}

\* the cached results of Some and Many expressions
Repetitions == Keys("Some") \cup Keys("Many")

\* Node n is what a repetition of inner, called at p, has to return
Greedy(kind, inner, p, n) ==
    LET c == ChildNodes(n)
        q == heap[n].end
    IN /\ heap[n].start = p
       /\ q = IF c = <<>> THEN p ELSE heap[c[Len(c)]].end
       /\ \A k \in 1..Len(c) :
             /\ c[k] \in Nodes
             /\ LET from == IF k = 1 THEN p ELSE heap[c[k - 1]].end
                IN /\ <<inner, from>> \in DOMAIN cache
                   /\ cache[<<inner, from>>] = c[k]
             /\ heap[c[k]].start < heap[c[k]].end \/ (kind = "Many" /\ k = 1)
       /\ <<inner, q>> \in DOMAIN cache
       /\ \/ cache[<<inner, q>>] = None
          \/ heap[cache[<<inner, q>>]].start = heap[cache[<<inner, q>>]].end

\* C18: greedy repetition.  Some(e) never fails; Many(e) fails exactly when e
\* fails at the start.  The children of the Node returned are the matches of
\* e, each from where the one before ended, none of them zero-width but
\* possibly Many's first; the Node spans from the start to the end q of the
\* last child, and at q e fails or matches zero-width.
C18_Greedy ==
    \A key \in Repetitions :
        LET kind == Objects[key[1]].kind
            inner == Objects[key[1]].expression
        IN /\ kind = "Some" => cache[key] # None
           /\ kind = "Many" =>
                 /\ <<inner, key[2]>> \in DOMAIN cache
                 /\ cache[key] = None <=> cache[<<inner, key[2]>>] = None
           /\ cache[key] # None => Greedy(kind, inner, key[2], cache[key])

\* ("x" / x+)* on "xxy": two children, and the third try fails at 2
C18_Witness ==
    /\ status = "returned"
    /\ root = 22
    /\ text = <<"x", "x", "y">>
    /\ origin = 0
    /\ ret # None
    /\ Len(heap[ret].children) = 2
    /\ heap[ret].end = 2
    /\ cache[<<10, 2>>] = None

\* C17: two matches over one grammar, each with its own text and cache.
\* Whatever the order of their steps, each returns or raises what it does
\* when run alone, with the same tree; and a step of one leaves the other's
\* arguments, frames, cache and Nodes as they were.
C17_Isolated ==
    /\ [](together # <<>> =>
            /\ status # "running" => Result(Own) = together[lane]
            /\ lane = 2 => Result(other) = together[1])
    /\ [][lane' = lane /\ together' = together => other' = other]_vars

\* ("x"?)* on "x" and on "y", interleaved and then alone: the two results differ
C17_Witness ==
    /\ together # <<>>
    /\ lane = 2
    /\ status = "returned"
    /\ root = 9 /\ other.root = 9
    /\ other.text = <<"x">>
    /\ text = <<"y">>
    /\ together[1] # together[2]
    /\ Result(Own) = together[2]

====
